---- MODULE Spec2Model ----
(***************************************************************************)
(* A model of generate.py of reddit-place-2017: the palette, the two       *)
(* canvases (FastLoadCanvas, FastSaveCanvas), the load_diff generator and  *)
(* the three export modes of main (--latest, --timestamp, --interval).     *)
(***************************************************************************)
EXTENDS Integers, Sequences, FiniteSets, TLC

\* ------------------------------------------------------------------ bounds
\* Largest coordinate of the modelled board (the program's board is 0..999).
MaxCoord == 1
\* Largest number of whole 16-byte records of a generated diff.
MaxLen == 2
\* Largest number of calls made on a canvas driven directly (SpecCanvas).
MaxCalls == 2

\* --------------------------------------------------------------- constants
\* struct format "<IIII": four fields of four bytes each.
RecordSize == 16
BoardMax == 999
\* latest_timestamp = None: a value no unsigned timestamp equals.
None == -1

\* hexify(color): three pairs of hexadecimal digits -> an RGB tuple.
hexify(color) ==
    << 16 * color[1] + color[2], 16 * color[3] + color[4], 16 * color[5] + color[6] >>

ColorTable ==
    << hexify(<<15,15,15,15,15,15>>),   \*  0 ffffff
       hexify(<<14, 4,14, 4,14, 4>>),   \*  1 e4e4e4
       hexify(<< 8, 8, 8, 8, 8, 8>>),   \*  2 888888
       hexify(<< 2, 2, 2, 2, 2, 2>>),   \*  3 222222
       hexify(<<15,15,10, 7,13, 1>>),   \*  4 ffa7d1
       hexify(<<14, 5, 0, 0, 0, 0>>),   \*  5 e50000
       hexify(<<14, 5, 9, 5, 0, 0>>),   \*  6 e59500
       hexify(<<10, 0, 6,10, 4, 2>>),   \*  7 a06a42
       hexify(<<14, 5,13, 9, 0, 0>>),   \*  8 e5d900
       hexify(<< 9, 4,14, 0, 4, 4>>),   \*  9 94e044
       hexify(<< 0, 2,11,14, 0, 1>>),   \* 10 02be01
       hexify(<< 0, 0,13, 3,13,13>>),   \* 11 00d3dd
       hexify(<< 0, 0, 8, 3,12, 7>>),   \* 12 0083c7
       hexify(<< 0, 0, 0, 0,14,10>>),   \* 13 0000ea
       hexify(<<12,15, 6,14,14, 4>>),   \* 14 cf6ee4
       hexify(<< 8, 2, 0, 0, 8, 0>>) >> \* 15 820080

\* The COLORS dict: keys 0..15.
COLORS == [c \in 0..15 |-> ColorTable[c + 1]]

BLACKLISTED_TIMESTAMPS == { 1490986860 }

\* ------------------------------------------------------------------ images
\* A PIL image: its size and one RGB tuple per pixel (x, y).
Black == <<0, 0, 0>>

\* Image.new("RGB", size): every pixel black.
ImageNew(size) ==
    [size |-> size,
     px   |-> [p \in (0..(size[1] - 1)) \X (0..(size[2] - 1)) |-> Black]]

NoImage == [size |-> <<0, 0>>, px |-> [p \in {} |-> Black]]

\* ImageDraw.rectangle([(x0, y0), (x1, y1)], fill): both corners inclusive.
DrawRectangle(img, p0, p1, fill) ==
    [img EXCEPT !.px =
        [p \in DOMAIN img.px |->
            IF p[1] >= p0[1] /\ p[1] <= p1[1] /\ p[2] >= p0[2] /\ p[2] <= p1[2]
            THEN fill ELSE img.px[p]]]

\* Image.putpixel(xy, value): IndexError outside the image.
InImage(img, xy) == xy \in DOMAIN img.px
PutPixel(img, xy, value) == [img EXCEPT !.px[xy] = value]

\* ---------------------------------------------------------------- canvases
\* BaseCanvas.__init__: _pixels is size_y lists of size_x zeros.
BaseCanvas(cls, area) ==
    LET size_x == area[2][1] - area[1][1] + 1
        size_y == area[2][2] - area[1][2] + 1
    IN [cls     |-> cls,
        start   |-> area[1],
        end     |-> area[2],
        size_x  |-> size_x,
        size_y  |-> size_y,
        _pixels |-> [i \in 0..(size_y - 1) |-> [j \in 0..(size_x - 1) |-> 0]],
        _image  |-> NoImage]

FastLoadCanvas(area) == BaseCanvas("FastLoadCanvas", area)

\* The image is left as Image.new made it.
FastSaveCanvas_NoFill(area) ==
    LET base == BaseCanvas("FastSaveCanvas", area)
    IN [base EXCEPT !._image = ImageNew(<<base.size_x, base.size_y>>)]

\* FastSaveCanvas.__init__: the image is filled with COLORS[0].
FastSaveCanvas(area) ==
    LET base == BaseCanvas("FastSaveCanvas", area)
    IN [base EXCEPT !._image =
            DrawRectangle(ImageNew(<<base.size_x, base.size_y>>),
                          <<0, 0>>, <<base.size_x - 1, base.size_y - 1>>, COLORS[0])]

NoCanvas == BaseCanvas("None", <<<<0, 0>>, <<-1, -1>>>>)

Done(c) == [canvas |-> c, exc |-> "none"]
Raise(c, e) == [canvas |-> c, exc |-> e]

\* after_set(x, y, color): pass in BaseCanvas, putpixel in FastSaveCanvas.
after_set(c, x, y, color) ==
    IF c.cls = "FastSaveCanvas"
    THEN IF color \notin DOMAIN COLORS THEN Raise(c, "KeyError")
         ELSE IF ~InImage(c._image, <<x, y>>) THEN Raise(c, "IndexError")
         ELSE Done([c EXCEPT !._image = PutPixel(c._image, <<x, y>>, COLORS[color])])
    ELSE Done(c)

\* The assignment self._pixels[x][y] = color of BaseCanvas.set.
StorePixel(c, x, y, color) ==
    IF x \notin DOMAIN c._pixels THEN Raise(c, "IndexError")
    ELSE IF y \notin DOMAIN c._pixels[x] THEN Raise(c, "IndexError")
    ELSE Done([c EXCEPT !._pixels[x][y] = color])

\* set with the test x > self.end[0] left out.
set_NoUpperX(c, x, y, color) ==
    IF x < c.start[1] THEN Done(c)
    ELSE IF y < c.start[2] \/ y > c.end[2] THEN Done(c)
    ELSE LET lx == x - c.start[1]
             ly == y - c.start[2]
             stored == StorePixel(c, lx, ly, color)
         IN IF stored.exc # "none" THEN stored
            ELSE after_set(stored.canvas, lx, ly, color)

\* BaseCanvas.set(x, y, color).
set(c, x, y, color) ==
    IF x < c.start[1] \/ x > c.end[1] THEN Done(c)
    ELSE IF y < c.start[2] \/ y > c.end[2] THEN Done(c)
    ELSE LET lx == x - c.start[1]
             ly == y - c.start[2]
             stored == StorePixel(c, lx, ly, color)
         IN IF stored.exc # "none" THEN stored
            ELSE after_set(stored.canvas, lx, ly, color)

\* FastLoadCanvas.save up to img.save: a new image and one putpixel per cell of
\* _pixels, row by row; the first failing cell raises.
FastLoadRender(c) ==
    LET img0  == ImageNew(<<c.size_x, c.size_y>>)
        cells == {p \in (DOMAIN c._pixels) \X (0..(c.size_x - 1)) : TRUE}
        CellExc(p) ==
            IF c._pixels[p[1]][p[2]] \notin DOMAIN COLORS THEN "KeyError"
            ELSE IF ~InImage(img0, p) THEN "IndexError"
            ELSE "none"
        bad   == {p \in cells : CellExc(p) # "none"}
        first == CHOOSE p \in bad :
                    \A q \in bad : p[1] < q[1] \/ (p[1] = q[1] /\ p[2] <= q[2])
    IN IF bad = {}
       THEN [exc |-> "none",
             img |-> [img0 EXCEPT !.px =
                        [p \in DOMAIN img0.px |->
                            IF p \in cells THEN COLORS[c._pixels[p[1]][p[2]]]
                            ELSE Black]]]
       ELSE [exc |-> CellExc(first), img |-> NoImage]

\* canvas.save(dest): what is written to dest, or the exception raised.
save(c) ==
    IF c.cls = "FastSaveCanvas" THEN [exc |-> "none", img |-> c._image]
    ELSE FastLoadRender(c)

\* ------------------------------------------------------------ the decoder
\* f.read(n): at most n bytes from the current position.
read(file, bytes, n) ==
    SubSeq(bytes, file.pos + 1,
           IF file.pos + n <= Len(bytes) THEN file.pos + n ELSE Len(bytes))

\* One "I" field of struct.unpack("<IIII", bytes): little-endian, unsigned.
UnpackField(bytes, i) ==
    bytes[i] + 256 * bytes[i + 1] + 65536 * bytes[i + 2] + 16777216 * bytes[i + 3]

\* unpack with the first and the last field exchanged.
unpack_Reordered(bytes) ==
    << UnpackField(bytes, 13), UnpackField(bytes, 5),
       UnpackField(bytes, 9), UnpackField(bytes, 1) >>

\* struct.unpack("<IIII", bytes) -> timestamp, x, y, color.
unpack(bytes) ==
    << UnpackField(bytes, 1), UnpackField(bytes, 5),
       UnpackField(bytes, 9), UnpackField(bytes, 13) >>

\* The blacklist test moved before canvas.set: a blacklisted record is dropped.
Apply_SkipBlacklisted(c, rec) ==
    IF rec[1] \in BLACKLISTED_TIMESTAMPS THEN Done(c)
    ELSE set(c, rec[2], rec[3], rec[4])

\* canvas.set(x, y, color) with the fields of the record just unpacked.
Apply(c, rec) == set(c, rec[2], rec[3], rec[4])

\* The blacklist test left out.
Blacklisted_Never(t) == FALSE

\* timestamp in BLACKLISTED_TIMESTAMPS
Blacklisted(t) == t \in BLACKLISTED_TIMESTAMPS

\* Every record yields, whether its timestamp is new or not.
NewTimestamp_Always(t, latest) == TRUE

\* Only a timestamp above the last one yields.
NewTimestamp_Greater(t, latest) == t > latest

\* timestamp != latest_timestamp
NewTimestamp(t, latest) == t # latest

\* ----------------------------------------------------------- list helpers
Elements(list) == {list[i] : i \in 1..Len(list)}

\* The last element is dropped instead of x.
remove_Last(list, x) == SubSeq(list, 1, Len(list) - 1)

\* The list is left as it is.
remove_Nothing(list, x) == list

\* list.remove(x): drops the first occurrence of x.
\* Every occurrence of x is removed.
remove_All(list, x) == SelectSeq(list, LAMBDA e : e # x)

remove(list, x) ==
    LET i == CHOOSE k \in 1..Len(list) :
                list[k] = x /\ \A j \in 1..(k - 1) : list[j] # x
    IN SubSeq(list, 1, i - 1) \o SubSeq(list, i + 1, Len(list))

\* timestamp not in missing_timestamps
Unwanted(t, missing) == t \notin Elements(missing)

\* The interval is left out of the comparison.
TooEarly_NoInterval(t, latest, interval) == t < latest

\* A boundary exactly one interval after the last export is skipped too.
TooEarly_Inclusive(t, latest, interval) == t <= latest + interval

\* No boundary is ever skipped.
TooEarly_Never(t, latest, interval) == FALSE

\* timestamp < (latest_timestamp + args.interval)
TooEarly(t, latest, interval) == t < latest + interval

\* --------------------------------------------------------------- the state
VARIABLES
    args,               \* parsed command line: mode, area, timestamps, interval
    data,               \* the bytes of the (decompressed) diff file
    pc,                 \* where the program is
    exc,                \* the exception that ended the run, or "none"
    canvas,             \* the canvas of main
    f,                  \* the file object of load_diff: opened, closed, pos
    latest_timestamp,   \* load_diff's latest_timestamp
    timestamp,          \* the loop variable of main's for statements
    missing_timestamps, \* main's missing_timestamps (--timestamp)
    threshold,          \* main's latest_timestamp (--interval)
    files,              \* the files written, in order: name and image
    stdout,             \* the lines printed, in order
    yields,             \* history: every timestamp load_diff has yielded
    decoded,            \* history: every record struct.unpack has returned
    twin,               \* SpecCanvas: a FastSaveCanvas fed the calls of canvas
    trace               \* SpecCanvas: the calls made and their outcomes

vars == << args, data, pc, exc, canvas, f, latest_timestamp, timestamp,
           missing_timestamps, threshold, files, stdout, yields, decoded,
           twin, trace >>

Unopened == [opened |-> FALSE, closed |-> FALSE, pos |-> 0]

\* ------------------------------------------------------------------ inputs
\* Little-endian bytes of one unsigned 32-bit field, and of one record.
PackField(n) ==
    << n % 256, (n \div 256) % 256, (n \div 65536) % 256, (n \div 16777216) % 256 >>

Pack(rec) ==
    PackField(rec[1]) \o PackField(rec[2]) \o PackField(rec[3]) \o PackField(rec[4])

RECURSIVE Encode(_)
Encode(recs) ==
    IF recs = <<>> THEN <<>> ELSE Pack(Head(recs)) \o Encode(Tail(recs))

TheBlacklisted == CHOOSE t \in BLACKLISTED_TIMESTAMPS : TRUE

\* Timestamps and colour codes of the generated input (16 is no key of
\* COLORS), and the pixels x, y, color of the generated records.
Timestamps == {100, 200, TheBlacklisted}
ColorCodes == {5, 9, 16}
Pixels == { <<0, 0, 5>>, <<0, 0, 9>>, <<1, 1, 9>>, <<1, 1, 16>> }

Records == {<<t, p[1], p[2], p[3]>> : t \in Timestamps, p \in Pixels}

Scenario2 == << <<100, 0, 0, 5>>, <<200, 1, 1, 9>> >>
Scenario3 == << <<0, 0, 0, 1>>, <<5, 0, 0, 2>>, <<12, 0, 0, 3>> >>
\* Two records off the diagonal of the board.
Crossed == << <<100, 1, 0, 5>>, <<200, 0, 1, 9>> >>
\* Three frames, the third painting over the first.
ThreeFrames == << <<100, 0, 0, 5>>, <<200, 1, 1, 9>>, <<300, 0, 0, 9>> >>
\* A timestamp, a blacklisted record, the same timestamp again.
Interrupted == << <<100, 0, 0, 5>>, <<TheBlacklisted, 0, 0, 9>>, <<100, 1, 1, 9>> >>
\* Timestamps that go back: 100, 200, 100.
BackAndForth == << <<100, 0, 0, 5>>, <<200, 1, 1, 9>>, <<100, 0, 0, 9>> >>

Streams ==
    UNION {[1..n -> Records] : n \in 0..MaxLen} \cup {Scenario2, Scenario3, Crossed, ThreeFrames, Interrupted, BackAndForth}

\* A truncated record: what a diff cut short ends with.
ShortTail == <<1, 2, 3>>

\* Whole diffs, and diffs cut short after fewer than MaxLen records.
Diffs ==
    {Encode(recs) : recs \in Streams}
    \cup {Encode(recs) \o ShortTail : recs \in UNION {[1..n -> Records] : n \in 0..(MaxLen - 1)}}

\* Areas format_area accepts, with x1 <= x2 and y1 <= y2.
Coords == 0..MaxCoord
Regions ==
    {<<<<x1, y1>>, <<x2, y2>>>> :
        x1 \in Coords, y1 \in Coords, x2 \in Coords, y2 \in Coords}
ValidRegions ==
    {a \in Regions : a[1][1] <= a[2][1] /\ a[1][2] <= a[2][2]}

\* The areas of the runs of main: the whole board, a square crop, a wide and
\* a tall strip.
Areas ==
    { <<<<0, 0>>, <<MaxCoord, MaxCoord>>>>,
      <<<<1, 1>>, <<MaxCoord, MaxCoord>>>>,
      <<<<0, 0>>, <<MaxCoord, 0>>>>,
      <<<<1, 0>>, <<1, MaxCoord>>>> }

WantedLists ==
    { <<100>>, <<200, 100>>, <<100, 999>>, <<999>>, <<100, 100>> }
Intervals == {10, 100, 150}

Args(mode, area, timestamps, interval) ==
    [mode |-> mode, area |-> area, timestamps |-> timestamps, interval |-> interval]

ArgsSet ==
    {Args("latest", a, <<>>, 0) : a \in Areas}
    \cup {Args("timestamp", a, w, 0) : a \in Areas, w \in WantedLists}
    \cup {Args("interval", a, <<>>, i) : a \in Areas, i \in Intervals}

\* The state after parse_args and os.makedirs.
Init ==
    /\ args \in ArgsSet
    /\ data \in Diffs
    /\ pc = "main"
    /\ exc = "none"
    /\ canvas = NoCanvas
    /\ f = Unopened
    /\ latest_timestamp = None
    /\ timestamp = None
    /\ missing_timestamps = <<>>
    /\ threshold = 0
    /\ files = <<>>
    /\ stdout = <<>>
    /\ yields = <<>>
    /\ decoded = <<>>
    /\ twin = NoCanvas
    /\ trace = <<>>

\* ----------------------------------------------------------------- actions
\* main, from the chosen "if" to its for statement: the canvas and the locals.
Main ==
    /\ pc = "main"
    /\ canvas' = IF args.mode = "interval" THEN FastSaveCanvas(args.area)
                 ELSE FastLoadCanvas(args.area)
    /\ missing_timestamps' = IF args.mode = "timestamp" THEN args.timestamps ELSE <<>>
    /\ threshold' = IF args.mode = "interval" THEN 0 - args.interval ELSE 0
    /\ pc' = "for"
    /\ UNCHANGED << args, data, exc, f, latest_timestamp, timestamp, files,
                    stdout, yields, decoded, twin, trace >>

\* load_diff, first next(): open the file, latest_timestamp = None.
LoadDiffOpen ==
    /\ pc = "for"
    /\ f' = [opened |-> TRUE, closed |-> FALSE, pos |-> 0]
    /\ latest_timestamp' = None
    /\ pc' = "load_diff"
    /\ UNCHANGED << args, data, exc, canvas, timestamp, missing_timestamps,
                    threshold, files, stdout, yields, decoded, twin, trace >>

\* An empty read does not leave the loop.
LoadDiffStep_NoBreak ==
    /\ pc = "load_diff"
    /\ LET bytes == read(f, data, RecordSize)
           rec   == unpack(bytes)
           r     == Apply(canvas, rec)
       IN /\ f' = [f EXCEPT !.pos = f.pos + Len(bytes)]
          /\ IF bytes = <<>>
             THEN /\ pc' = "load_diff"
                  /\ UNCHANGED << exc, canvas, latest_timestamp, timestamp,
                                  yields, decoded >>
             ELSE IF Len(bytes) # RecordSize
             THEN /\ pc' = "raised"
                  /\ exc' = "struct.error"
                  /\ UNCHANGED << canvas, latest_timestamp, timestamp,
                                  yields, decoded >>
             ELSE /\ decoded' = Append(decoded, rec)
                  /\ canvas' = r.canvas
                  /\ IF r.exc # "none"
                     THEN /\ pc' = "raised"
                          /\ exc' = r.exc
                          /\ UNCHANGED << latest_timestamp, timestamp, yields >>
                     ELSE IF Blacklisted(rec[1])
                     THEN /\ pc' = "load_diff"
                          /\ UNCHANGED << exc, latest_timestamp, timestamp, yields >>
                     ELSE IF NewTimestamp(rec[1], latest_timestamp)
                     THEN /\ latest_timestamp' = rec[1]
                          /\ timestamp' = rec[1]
                          /\ yields' = Append(yields, rec[1])
                          /\ pc' = "body"
                          /\ UNCHANGED exc
                     ELSE /\ pc' = "load_diff"
                          /\ UNCHANGED << exc, latest_timestamp, timestamp, yields >>
    /\ UNCHANGED << args, data, missing_timestamps, threshold, files, stdout,
                    twin, trace >>

\* load_diff, one turn of "while True": read, unpack, canvas.set, and either
\* break, raise, continue or yield.
LoadDiffStep ==
    /\ pc = "load_diff"
    /\ LET bytes == read(f, data, RecordSize)
           rec   == unpack(bytes)
           r     == Apply(canvas, rec)
       IN /\ f' = [f EXCEPT !.pos = f.pos + Len(bytes)]
          /\ IF bytes = <<>>
             THEN /\ pc' = "stop"
                  /\ UNCHANGED << exc, canvas, latest_timestamp, timestamp,
                                  yields, decoded >>
             ELSE IF Len(bytes) # RecordSize
             THEN /\ pc' = "raised"
                  /\ exc' = "struct.error"
                  /\ UNCHANGED << canvas, latest_timestamp, timestamp,
                                  yields, decoded >>
             ELSE /\ decoded' = Append(decoded, rec)
                  /\ canvas' = r.canvas
                  /\ IF r.exc # "none"
                     THEN /\ pc' = "raised"
                          /\ exc' = r.exc
                          /\ UNCHANGED << latest_timestamp, timestamp, yields >>
                     ELSE IF Blacklisted(rec[1])
                     THEN /\ pc' = "load_diff"
                          /\ UNCHANGED << exc, latest_timestamp, timestamp, yields >>
                     ELSE IF NewTimestamp(rec[1], latest_timestamp)
                     THEN /\ latest_timestamp' = rec[1]
                          /\ timestamp' = rec[1]
                          /\ yields' = Append(yields, rec[1])
                          /\ pc' = "body"
                          /\ UNCHANGED exc
                     ELSE /\ pc' = "load_diff"
                          /\ UNCHANGED << exc, latest_timestamp, timestamp, yields >>
    /\ UNCHANGED << args, data, missing_timestamps, threshold, files, stdout,
                    twin, trace >>

\* What canvas.save can come to: for a canvas without cells (size_x or
\* size_y not positive) Image.new and img.save either raise or write an image
\* without pixels, depending on the imaging library.
SaveOutcomes(c) ==
    IF c.size_x <= 0 \/ c.size_y <= 0
    THEN {save(c), [exc |-> "ValueError", img |-> NoImage]}
    ELSE {save(c)}

\* print("Storing %s" % path); canvas.save(path)
Store(name) ==
    \E r \in SaveOutcomes(canvas) :
       /\ stdout' = Append(stdout, <<"Storing", name>>)
       /\ IF r.exc # "none"
          THEN /\ exc' = r.exc
               /\ UNCHANGED files
          ELSE /\ files' = Append(files, [name |-> name, img |-> r.img])
               /\ UNCHANGED exc

\* --latest: the body of the for statement is "continue".
LatestBody ==
    /\ pc = "body"
    /\ args.mode = "latest"
    /\ pc' = "load_diff"
    /\ UNCHANGED << args, data, exc, canvas, f, latest_timestamp, timestamp,
                    missing_timestamps, threshold, files, stdout, yields, decoded, twin, trace >>

\* --latest: after the loop, store latest.<format>.
LatestSave ==
    /\ pc = "stop"
    /\ args.mode = "latest"
    /\ Store("latest")
    /\ pc' = IF exc' # "none" THEN "raised" ELSE "done"
    /\ UNCHANGED << args, data, canvas, f, latest_timestamp, timestamp,
                    missing_timestamps, threshold, yields, decoded, twin, trace >>

\* The loop goes on after the last wanted timestamp was exported.
TimestampBody_NoBreak ==
    /\ pc = "body"
    /\ args.mode = "timestamp"
    /\ IF Unwanted(timestamp, missing_timestamps)
       THEN /\ pc' = "load_diff"
            /\ UNCHANGED << exc, missing_timestamps, files, stdout >>
       ELSE /\ missing_timestamps' = remove(missing_timestamps, timestamp)
            /\ Store(timestamp)
            /\ pc' = IF exc' # "none" THEN "raised" ELSE "load_diff"
    /\ UNCHANGED << args, data, canvas, f, latest_timestamp, timestamp,
                    threshold, yields, decoded, twin, trace >>

\* --timestamp: the body of the for statement.
TimestampBody ==
    /\ pc = "body"
    /\ args.mode = "timestamp"
    /\ IF Unwanted(timestamp, missing_timestamps)
       THEN /\ pc' = "load_diff"
            /\ UNCHANGED << exc, missing_timestamps, files, stdout >>
       ELSE /\ missing_timestamps' = remove(missing_timestamps, timestamp)
            /\ Store(timestamp)
            /\ pc' = IF exc' # "none" THEN "raised"
                     ELSE IF missing_timestamps' = <<>> THEN "break"
                     ELSE "load_diff"
    /\ UNCHANGED << args, data, canvas, f, latest_timestamp, timestamp,
                    threshold, yields, decoded, twin, trace >>

\* --timestamp: after the loop, one "Timestamp not found" line per element
\* left in missing_timestamps.
TimestampReport ==
    /\ pc \in {"stop", "break"}
    /\ args.mode = "timestamp"
    /\ stdout' = stdout \o [i \in 1..Len(missing_timestamps) |->
                               <<"Timestamp not found", missing_timestamps[i]>>]
    /\ pc' = "done"
    /\ UNCHANGED << args, data, exc, canvas, f, latest_timestamp, timestamp,
                    missing_timestamps, threshold, files, yields, decoded, twin, trace >>

\* --interval: the body of the for statement.
IntervalBody ==
    /\ pc = "body"
    /\ args.mode = "interval"
    /\ IF TooEarly(timestamp, threshold, args.interval)
       THEN /\ pc' = "load_diff"
            /\ UNCHANGED << exc, threshold, files, stdout >>
       ELSE /\ threshold' = timestamp
            /\ Store(timestamp)
            /\ pc' = IF exc' # "none" THEN "raised" ELSE "load_diff"
    /\ UNCHANGED << args, data, canvas, f, latest_timestamp, timestamp,
                    missing_timestamps, yields, decoded, twin, trace >>

\* --interval: the loop ends and main returns.
IntervalEnd ==
    /\ pc = "stop"
    /\ args.mode = "interval"
    /\ pc' = "done"
    /\ UNCHANGED << args, data, exc, canvas, f, latest_timestamp, timestamp,
                    missing_timestamps, threshold, files, stdout, yields, decoded, twin, trace >>

Next ==
    \/ Main
    \/ LoadDiffOpen
    \/ LoadDiffStep
    \/ LatestBody
    \/ LatestSave
    \/ TimestampBody
    \/ TimestampReport
    \/ IntervalBody
    \/ IntervalEnd

Spec == Init /\ [][Next]_vars

\* ------------------------------------------------- the --area command line
\* format_area(input): input is the text split at ":" and "," with its
\* numbers read; exactly two parts of two numbers each, every number in
\* 0..999. The corners are not compared with each other.
format_area(input) ==
    IF Len(input) # 2 THEN [ok |-> FALSE, area |-> <<>>]
    ELSE IF \E k \in 1..2 : Len(input[k]) # 2 THEN [ok |-> FALSE, area |-> <<>>]
    ELSE IF \E k \in 1..2 : \/ input[k][1] < 0 \/ input[k][2] < 0
                            \/ input[k][1] > BoardMax \/ input[k][2] > BoardMax
         THEN [ok |-> FALSE, area |-> <<>>]
    ELSE [ok |-> TRUE, area |-> << <<input[1][1], input[1][2]>>,
                                  <<input[2][1], input[2][2]>> >>]

\* What --area is given on the command line: a region of the board, corners
\* the wrong way round (both, x only), corners off the board (above 999,
\* below 0), a text without ":", a part without ",".
AreaInputs ==
    { << <<0, 0>>, <<MaxCoord, MaxCoord>> >>,
      << <<MaxCoord, MaxCoord>>, <<0, 0>> >>,
      << <<MaxCoord, 0>>, <<0, MaxCoord>> >>,
      << <<0, 0>>, <<BoardMax + 1, 0>> >>,
      << <<0 - 1, 0>>, <<MaxCoord, MaxCoord>> >>,
      << <<0, 0>> >>,
      << <<0>>, <<MaxCoord, MaxCoord>> >> }

AreaDiffs == {Encode(recs) : recs \in {<<>>, Scenario2, ThreeFrames, Interrupted, BackAndForth}}

\* The state before parser.parse_args(): args.area holds the --area input.
InitArea ==
    /\ args \in {Args("latest", a, <<>>, 0) : a \in AreaInputs}
               \cup {Args("timestamp", a, w, 0) : a \in AreaInputs, w \in WantedLists}
    /\ data \in AreaDiffs
    /\ pc = "parse_args"
    /\ exc = "none"
    /\ canvas = NoCanvas
    /\ f = Unopened
    /\ latest_timestamp = None
    /\ timestamp = None
    /\ missing_timestamps = <<>>
    /\ threshold = 0
    /\ files = <<>>
    /\ stdout = <<>>
    /\ yields = <<>>
    /\ decoded = <<>>
    /\ twin = NoCanvas
    /\ trace = <<>>

\* parser.parse_args(): --area goes through format_area; an
\* ArgumentTypeError makes argparse print the message and exit.
ParseArgs ==
    /\ pc = "parse_args"
    /\ LET r == format_area(args.area)
       IN IF r.ok
          THEN /\ args' = [args EXCEPT !.area = r.area]
               /\ pc' = "main"
               /\ UNCHANGED exc
          ELSE /\ pc' = "exit"
               /\ exc' = "SystemExit"
               /\ UNCHANGED args
    /\ UNCHANGED << data, canvas, f, latest_timestamp, timestamp,
                    missing_timestamps, threshold, files, stdout, yields,
                    decoded, twin, trace >>

\* The runs with --latest and --timestamp, from the command line on.
NextArea ==
    \/ ParseArgs
    \/ Main
    \/ LoadDiffOpen
    \/ LoadDiffStep
    \/ LatestBody
    \/ LatestSave
    \/ TimestampBody
    \/ TimestampReport

SpecArea == InitArea /\ [][NextArea]_vars

\* load_diff holds the only reference to the file object and never calls
\* close: the object is closed when the implementation finalises the generator
\* (after the loop is left, or with the frame of a raised exception), which
\* may happen at any later point or not before the process ends.
Collect ==
    /\ pc \in {"stop", "break", "done", "raised"}
    /\ f.opened
    /\ ~f.closed
    /\ f' = [f EXCEPT !.closed = TRUE]
    /\ UNCHANGED << args, data, pc, exc, canvas, latest_timestamp, timestamp,
                    missing_timestamps, threshold, files, stdout, yields,
                    decoded, twin, trace >>

NextRelease ==
    \/ Next
    \/ Collect

SpecRelease == Init /\ [][NextRelease]_vars

\* The interpreter runs main to its end: some statement is always executed
\* while one is left.
SpecFair == Init /\ [][Next]_vars /\ WF_vars(Next)

\* ------------------------------------------------- the canvases on their own
\* A FastLoadCanvas (canvas) and a FastSaveCanvas (twin) over one area, given
\* the same calls; trace records each call with both outcomes.
InitCanvas ==
    /\ args \in {Args("api", a, <<>>, 0) : a \in ValidRegions}
    /\ data = <<>>
    /\ pc = "api"
    /\ exc = "none"
    /\ canvas = FastLoadCanvas(args.area)
    /\ twin = FastSaveCanvas(args.area)
    /\ f = Unopened
    /\ latest_timestamp = None
    /\ timestamp = None
    /\ missing_timestamps = <<>>
    /\ threshold = 0
    /\ files = <<>>
    /\ stdout = <<>>
    /\ yields = <<>>
    /\ decoded = <<>>
    /\ trace = <<>>

\* canvas.set(x, y, color) on both canvases.
ApiSet ==
    /\ pc = "api"
    /\ Len(trace) < MaxCalls
    /\ \E x \in Coords, y \in Coords, color \in ColorCodes :
          LET r1 == set(canvas, x, y, color)
              r2 == set(twin, x, y, color)
          IN /\ canvas' = r1.canvas
             /\ twin' = r2.canvas
             /\ trace' = Append(trace,
                    [op |-> "set", x |-> x, y |-> y, color |-> color,
                     exc |-> <<r1.exc, r2.exc>>, img |-> <<NoImage, NoImage>>])
    /\ UNCHANGED << args, data, pc, exc, f, latest_timestamp, timestamp,
                    missing_timestamps, threshold, files, stdout, yields, decoded >>

\* canvas.save(dest) on both canvases.
ApiSave ==
    /\ pc = "api"
    /\ Len(trace) < MaxCalls
    /\ LET r1 == save(canvas)
           r2 == save(twin)
       IN trace' = Append(trace,
              [op |-> "save", x |-> 0, y |-> 0, color |-> 0,
               exc |-> <<r1.exc, r2.exc>>, img |-> <<r1.img, r2.img>>])
    /\ UNCHANGED << args, data, pc, exc, canvas, twin, f, latest_timestamp,
                    timestamp, missing_timestamps, threshold, files, stdout,
                    yields, decoded >>

NextCanvas ==
    \/ ApiSet
    \/ ApiSave

SpecCanvas == InitCanvas /\ [][NextCanvas]_vars

\* ------------------------------------------------- what the claims speak of
\* The region as the specification names it.
X1 == args.area[1][1]
Y1 == args.area[1][2]
X2 == args.area[2][1]
Y2 == args.area[2][2]
Width == X2 - X1 + 1
Height == Y2 - Y1 + 1

OutsideRegion(x, y) == x < X1 \/ x > X2 \/ y < Y1 \/ y > Y2

\* Grid-local cells: no region of the board has more than these.
Board == Coords \X Coords
GridCells == (0..(Width - 1)) \X (0..(Height - 1))

\* The colour code a canvas holds for the grid-local cell p, and 0 for a cell
\* it does not hold.
CodeAt(c, p) ==
    IF p[1] \in DOMAIN c._pixels
    THEN IF p[2] \in DOMAIN c._pixels[p[1]] THEN c._pixels[p[1]][p[2]] ELSE 0
    ELSE 0
Grid(c) == [p \in Board |-> CodeAt(c, p)]

\* Field k (0..3) of the i-th 16-byte record of the diff, little-endian.
WireField(i, k) ==
    LET o == 16 * (i - 1) + 4 * k
    IN data[o + 1] + data[o + 2] * 256 + data[o + 3] * 256 * 256
       + data[o + 4] * 256 * 256 * 256
WireRecord(i) ==
    [timestamp |-> WireField(i, 0), x |-> WireField(i, 1),
     y |-> WireField(i, 2), color |-> WireField(i, 3)]
WholeRecords == Len(data) \div 16

\* The grid after the first n records of the diff, each applied in order to a
\* zero grid at its translated coordinate, records outside the region dropped:
\* a cell holds the colour of the last record that addressed it.
RefGrid(n) ==
    [p \in Board |->
        LET hits == {i \in 1..n : /\ ~OutsideRegion(WireRecord(i).x, WireRecord(i).y)
                                  /\ WireRecord(i).x - X1 = p[1]
                                  /\ WireRecord(i).y - Y1 = p[2]}
        IN IF hits = {} THEN 0
           ELSE WireRecord(CHOOSE i \in hits : \A j \in hits : j <= i).color]

\* The palette of the specification: codes 0..15.
Palette(code) == IF code \in 0..15 THEN COLORS[code] ELSE <<-1, -1, -1>>

\* The width x height raster of the grid after the first n records.
RefImage(n) ==
    [size |-> <<Width, Height>>,
     px   |-> [p \in GridCells |-> Palette(RefGrid(n)[p])]]

\* The boundary sequence of the first n records: the timestamps that are not
\* blacklisted and differ from the one reported last.
RECURSIVE Boundaries(_)
Boundaries(n) ==
    IF n = 0 THEN <<>>
    ELSE LET before == Boundaries(n - 1)
             t == WireRecord(n).timestamp
         IN IF t \in BLACKLISTED_TIMESTAMPS THEN before
            ELSE IF before # <<>> /\ before[Len(before)] = t THEN before
            ELSE Append(before, t)

Count(list, v) == Cardinality({i \in 1..Len(list) : list[i] = v})
Names == [i \in 1..Len(files) |-> files[i].name]
NotFound ==
    LET idx == {i \in 1..Len(stdout) : stdout[i][1] = "Timestamp not found"}
    IN {stdout[i][2] : i \in idx}
NotFoundCount(t) ==
    Cardinality({i \in 1..Len(stdout) : stdout[i] = <<"Timestamp not found", t>>})

\* ------------------------------------------------------------------ claims
LastCall == trace[Len(trace)]
ValidCode(code) == code \in 0..15

\* C1: a set(x, y, color) whose absolute coordinates lie outside the region
\* raises no error and leaves the whole state of the canvas unchanged: the
\* grid of both canvases and the live raster of the FastSaveCanvas.
C1_OutsideSetIgnored ==
    [][ (/\ Len(trace') = Len(trace) + 1
         /\ trace'[Len(trace')].op = "set"
         /\ OutsideRegion(trace'[Len(trace')].x, trace'[Len(trace')].y))
        => (/\ trace'[Len(trace')].exc = <<"none", "none">>
            /\ canvas' = canvas
            /\ twin' = twin) ]_vars

\* A set outside the region has been made on canvases that already hold a pixel.
C1_Witness ==
    /\ pc = "api"
    /\ Len(trace) = 2
    /\ trace[1].op = "set"
    /\ ~OutsideRegion(trace[1].x, trace[1].y)
    /\ trace[1].exc = <<"none", "none">>
    /\ trace[2].op = "set"
    /\ OutsideRegion(trace[2].x, trace[2].y)
    /\ \E p \in Board : CodeAt(canvas, p) # 0

\* C2: in every valid region, square or not, a set(x, y, color) inside the
\* region (with a colour of the palette) completes without error and changes
\* exactly the grid cell at (x - x1, y - y1).
C2_InsideSetChangesOneCell ==
    [][ (/\ Len(trace') = Len(trace) + 1
         /\ trace'[Len(trace')].op = "set"
         /\ ~OutsideRegion(trace'[Len(trace')].x, trace'[Len(trace')].y)
         /\ ValidCode(trace'[Len(trace')].color))
        => LET call == trace'[Len(trace')]
               cell == <<call.x - X1, call.y - Y1>>
           IN /\ call.exc = <<"none", "none">>
              /\ Grid(canvas') = [Grid(canvas) EXCEPT ![cell] = call.color]
              /\ Grid(twin') = [Grid(twin) EXCEPT ![cell] = call.color] ]_vars

\* C3: fed the same set calls (with colours of the palette), the
\* FastLoadCanvas and the FastSaveCanvas end every set and every save alike:
\* the same success or failure, and on a save the same pixels.
C3_StrategiesAgree ==
    (\A i \in 1..Len(trace) : ValidCode(trace[i].color))
    => \A i \in 1..Len(trace) :
          /\ trace[i].exc[1] = trace[i].exc[2]
          /\ trace[i].img[1] = trace[i].img[2]

\* C4: what --latest renders is every record of the stream applied in order
\* to a zero grid (the last write to a cell wins, blacklisted records
\* included), and it renders once, after the stream is exhausted.
C4_LatestRendersFold ==
    args.mode = "latest"
    => /\ files # <<>>
          => /\ pc = "done"
             /\ f.pos = Len(data)
             /\ Len(decoded) = WholeRecords
             /\ files = << [name |-> "latest", img |-> RefImage(WholeRecords)] >>
       /\ pc = "done" => files # <<>>

\* --latest has rendered a stream whose second record is blacklisted and
\* overwrites the cell of the first with another colour.
C4_Witness ==
    /\ args.mode = "latest"
    /\ pc = "done"
    /\ Len(files) = 1
    /\ WholeRecords = 2
    /\ WireRecord(2).timestamp \in BLACKLISTED_TIMESTAMPS
    /\ ~OutsideRegion(WireRecord(2).x, WireRecord(2).y)
    /\ WireRecord(1).x = WireRecord(2).x
    /\ WireRecord(1).y = WireRecord(2).y
    /\ WireRecord(1).color # WireRecord(2).color
    /\ files[1].img.px[<<WireRecord(2).x - X1, WireRecord(2).y - Y1>>]
          = COLORS[WireRecord(2).color]

\* C5: no blacklisted timestamp is ever in the boundary sequence, and a
\* blacklisted record is applied all the same: while the run has not raised,
\* the cell of every blacklisted record read so far (inside the region, not
\* addressed again by a later record) holds that record's colour.
C5_BlacklistedAppliedNotReported ==
    /\ \A i \in 1..Len(yields) : yields[i] \notin BLACKLISTED_TIMESTAMPS
    /\ pc # "raised"
       => \A i \in 1..Len(decoded) :
             (/\ WireRecord(i).timestamp \in BLACKLISTED_TIMESTAMPS
              /\ ~OutsideRegion(WireRecord(i).x, WireRecord(i).y)
              /\ \A j \in (i + 1)..Len(decoded) :
                    \/ WireRecord(j).x # WireRecord(i).x
                    \/ WireRecord(j).y # WireRecord(i).y)
             => CodeAt(canvas, <<WireRecord(i).x - X1, WireRecord(i).y - Y1>>)
                   = WireRecord(i).color

\* The run ended after a reported record and then a blacklisted one, whose
\* colour the canvas holds.
C5_Witness ==
    /\ pc = "done"
    /\ Len(decoded) = 2
    /\ Len(yields) = 1
    /\ WireRecord(2).timestamp \in BLACKLISTED_TIMESTAMPS
    /\ ~OutsideRegion(WireRecord(2).x, WireRecord(2).y)
    /\ WireRecord(2).color # 0
    /\ CodeAt(canvas, <<WireRecord(2).x - X1, WireRecord(2).y - Y1>>)
          = WireRecord(2).color

\* C6: with --interval I, I > 0, two consecutive exported timestamps are at
\* least I apart, whatever the order of the timestamps of the stream.
C6_IntervalSpacing ==
    (args.mode = "interval" /\ args.interval > 0)
    => \A i \in 1..(Len(files) - 1) :
          files[i + 1].name - files[i].name >= args.interval

\* Two frames were exported and a boundary between them was skipped.
C6_Witness ==
    /\ args.mode = "interval"
    /\ args.interval > 0
    /\ pc = "done"
    /\ Len(files) = 2
    /\ Len(yields) = 3
    /\ yields[2] - yields[1] < args.interval

C8_EagerBoundary ==
    pc = "body"
    => LET k == Len(decoded)
       IN /\ k >= 1
          /\ f.pos = 16 * k
          /\ timestamp = WireRecord(k).timestamp
          /\ yields # <<>>
          /\ yields[Len(yields)] = timestamp
          /\ Grid(canvas) = RefGrid(k)
          /\ \A j \in 1..(k - 1) :
                (/\ WireRecord(j).timestamp \notin BLACKLISTED_TIMESTAMPS
                 /\ \A m \in (j + 1)..(k - 1) :
                       WireRecord(m).timestamp \in BLACKLISTED_TIMESTAMPS)
                => WireRecord(j).timestamp # timestamp

\* The second of three boundaries is being reported: the canvas holds the
\* pixel of the previous frame and the first pixel of the new one, and not yet
\* the third record, which paints over the first.
C8_Witness ==
    /\ pc = "body"
    /\ Len(yields) = 2
    /\ Len(decoded) = 2
    /\ WholeRecords = 3
    /\ WireRecord(3).x = WireRecord(1).x
    /\ WireRecord(3).y = WireRecord(1).y
    /\ WireRecord(3).color # WireRecord(1).color
    /\ \E p \in Board, q \in Board :
          /\ p # q
          /\ p = <<WireRecord(1).x - X1, WireRecord(1).y - Y1>>
          /\ q = <<WireRecord(2).x - X1, WireRecord(2).y - Y1>>
          /\ CodeAt(canvas, p) = WireRecord(1).color
          /\ CodeAt(canvas, q) = WireRecord(2).color
          /\ WireRecord(1).color # 0
          /\ WireRecord(2).color # 0

\* Scenario 2: the stream [(100,0,0,5),(200,1,1,9)], --timestamp 100, the
\* whole board.
IsScenario2 ==
    /\ args.mode = "timestamp"
    /\ args.timestamps = <<100>>
    /\ args.area = <<<<0, 0>>, <<MaxCoord, MaxCoord>>>>
    /\ data = Encode(Scenario2)

\* C9 as stated: the frame exported for 100 holds (0,0) = palette[5] and also
\* (1,1) = palette[9]; no file for 200; nothing reported not found.
C9_Scenario2AsClaimed ==
    (IsScenario2 /\ pc = "done")
    => /\ Names = <<100>>
       /\ files[1].img.px[<<0, 0>>] = COLORS[5]
       /\ files[1].img.px[<<1, 1>>] = COLORS[9]
       /\ NotFound = {}

\* C9 amended: the frame exported for 100 holds (0,0) = palette[5] and
\* (1,1) = palette[0]: the scan stops at the export of 100, the record
\* (200,1,1,9) is never read; no file for 200; nothing reported not found.
C9_Scenario2 ==
    (IsScenario2 /\ pc = "done")
    => /\ Names = <<100>>
       /\ files[1].img.px[<<0, 0>>] = COLORS[5]
       /\ files[1].img.px[<<1, 1>>] = COLORS[0]
       /\ f.pos = 16
       /\ Len(decoded) = 1
       /\ NotFound = {}

\* Scenario 2 has run to its end.
C9_Witness == IsScenario2 /\ pc = "done" /\ Len(files) = 1

\* C10: every read is of one 16-byte record; the scan ends normally exactly
\* when no byte is left, having decoded Len(data)/16 records, each of them
\* the little-endian timestamp, x, y, color of its 16 bytes; when 1..15 bytes
\* are left the run ends with the error of struct.unpack.
C10_DecoderEndOfStream ==
    /\ \A i \in 1..Len(decoded) :
          decoded[i] = << WireRecord(i).timestamp, WireRecord(i).x,
                          WireRecord(i).y, WireRecord(i).color >>
    /\ (f.pos # 16 * Len(decoded)) => exc = "struct.error"
    /\ pc = "stop"
       => /\ f.pos = Len(data)
          /\ Len(data) % 16 = 0
          /\ Len(decoded) = Len(data) \div 16
    /\ exc = "struct.error"
       => /\ pc = "raised"
          /\ Len(data) % 16 \in 1..15
          /\ f.pos = Len(data)
          /\ Len(decoded) = Len(data) \div 16
    /\ (pc \in {"stop", "done"} /\ args.mode # "timestamp") => Len(data) % 16 = 0

\* A diff of one whole record and a truncated one has raised.
C10_Witness ==
    /\ exc = "struct.error"
    /\ Len(decoded) = 1
    /\ Len(data) = 19


\* C11: a record whose colour is outside 0..15 ends the run with an error at
\* that very record: the run has raised and no later record has been decoded.
C11_InvalidColorRaisesAtOnce ==
    \A i \in 1..Len(decoded) :
        ~ValidCode(WireRecord(i).color)
        => /\ pc = "raised"
           /\ exc # "none"
           /\ Len(decoded) = i

\* C14: the timestamps reported so far are exactly those of the records read
\* so far that are not blacklisted and differ from the one reported last
\* (none at first); so no two consecutive reports are equal, and a blacklisted
\* record between two records of one timestamp causes no second report.
C14_BoundaryRule ==
    /\ pc # "raised" => yields = Boundaries(Len(decoded))
    /\ \A i \in 1..(Len(yields) - 1) : yields[i] # yields[i + 1]
    /\ \A i \in 1..Len(yields) : yields[i] \notin BLACKLISTED_TIMESTAMPS
    /\ latest_timestamp = IF yields = <<>> THEN None ELSE yields[Len(yields)]

\* The stream t, blacklisted, t has been read to its end: one report.
C14_Witness ==
    /\ pc = "done"
    /\ Len(decoded) = 3
    /\ WireRecord(1).timestamp = WireRecord(3).timestamp
    /\ WireRecord(2).timestamp \in BLACKLISTED_TIMESTAMPS
    /\ yields = << WireRecord(1).timestamp >>


\* The boundaries the loop body has dealt with: all that were yielded, but
\* the last one while the body is still to run for it.
Processed == IF pc = "body" THEN SubSeq(yields, 1, Len(yields) - 1) ELSE yields
MaxOf(list) == CHOOSE v \in Elements(list) : \A w \in Elements(list) : w <= v
FirstAtOrAfter(list, m) ==
    list[CHOOSE i \in 1..Len(list) :
            list[i] >= m /\ \A j \in 1..(i - 1) : list[j] < m]
Min(a, b) == IF a <= b THEN a ELSE b

\* The sampling rule: of the first n boundaries, the first is taken and then
\* every one that is at least I above the one taken last.
RECURSIVE Sample(_, _, _)
Sample(list, n, I) ==
    IF n = 0 THEN <<>>
    ELSE LET before == Sample(list, n - 1, I)
         IN IF before = <<>> \/ list[n] >= before[Len(before)] + I
            THEN Append(before, list[n])
            ELSE before

\* C15, as stated: when an --interval run has ended, the first boundary is
\* exported and, for every multiple k*I up to the largest boundary, the first
\* boundary at or after k*I is exported.
C15_FirstAfterEachMultiple ==
    (args.mode = "interval" /\ pc = "done" /\ yields # <<>>)
    => /\ yields[1] \in Elements(Names)
       /\ \A k \in 0..(MaxOf(yields) \div args.interval) :
             FirstAtOrAfter(yields, k * args.interval) \in Elements(Names)

\* C15, amended: with --interval I the first reported boundary is exported,
\* and every later boundary is exported exactly when it is at least I above
\* the boundary exported last (the multiples of I play no part).
C15_SampledFromLastExport ==
    (args.mode = "interval" /\ pc # "raised")
    => Names = Sample(Processed, Len(Processed), args.interval)

\* Three boundaries were reported, the second less than I after the first:
\* the first and the third were exported.
C15_Witness ==
    /\ args.mode = "interval"
    /\ pc = "done"
    /\ Len(yields) = 3
    /\ yields[2] < yields[1] + args.interval
    /\ Names = << yields[1], yields[3] >>

\* C16: with --timestamp, the scan stops as soon as the wanted list is empty:
\* the loop is left in the very body that exported the last wanted
\* timestamp, the record read last is the one that reported it, the exported
\* frame is the grid after exactly the records read, and no byte beyond that
\* record has been read.
C16_EarlyTermination ==
    (args.mode = "timestamp" /\ pc \notin {"main", "raised"}
                             /\ missing_timestamps = <<>>)
    => /\ pc \in {"break", "done"}
       /\ files # <<>>
       /\ decoded # <<>>
       /\ f.pos = RecordSize * Len(decoded)
       /\ files[Len(files)].name = decoded[Len(decoded)][1]
       /\ files[Len(files)].img = RefImage(Len(decoded))
       /\ Len(files) = Len(args.timestamps)

\* The run ended with every wanted timestamp exported and a record of the
\* stream left unread.
C16_Witness ==
    /\ args.mode = "timestamp"
    /\ pc = "done"
    /\ missing_timestamps = <<>>
    /\ files # <<>>
    /\ f.pos + RecordSize <= Len(data)

\* C19: with --interval and I >= 1 the exported timestamps are strictly
\* increasing, whatever the order of the timestamps in the stream, so no file
\* name is written twice.
C19_ExportsIncrease ==
    (args.mode = "interval" /\ args.interval >= 1)
    => \A i, j \in 1..Len(Names) : i < j => Names[i] < Names[j]

\* A stream whose third boundary is below its second was sampled to its end:
\* two exports, the late low timestamp was not exported again.
C19_Witness ==
    /\ args.mode = "interval"
    /\ pc = "done"
    /\ Len(yields) = 3
    /\ yields[3] < yields[2]
    /\ yields[3] = yields[1]
    /\ Names = << yields[1], yields[2] >>

C17_LiveRasterConsistent ==
    (\A i \in 1..Len(trace) : trace[i].exc[2] # "KeyError")
    => /\ DOMAIN twin._image.px = GridCells
       /\ \A p \in GridCells : twin._image.px[p] = Palette(CodeAt(twin, p))
       /\ trace = <<>> => \A p \in GridCells : twin._image.px[p] = Palette(0)
       /\ (/\ trace # <<>>
           /\ LastCall.op = "set"
           /\ LastCall.exc[2] = "none"
           /\ ~OutsideRegion(LastCall.x, LastCall.y))
          => LET p == <<LastCall.x - X1, LastCall.y - Y1>>
             IN /\ CodeAt(twin, p) = LastCall.color
                /\ twin._image.px[p] = Palette(LastCall.color)

\* Two sets painted one cell of the region with two different colours: the
\* live image shows the second.
C17_Witness ==
    /\ Len(trace) = 2
    /\ trace[1].op = "set" /\ trace[2].op = "set"
    /\ trace[1].x = trace[2].x /\ trace[1].y = trace[2].y
    /\ ~OutsideRegion(trace[2].x, trace[2].y)
    /\ trace[1].exc[2] = "none" /\ trace[2].exc[2] = "none"
    /\ trace[1].color # trace[2].color
    /\ trace[2].color # 0
    /\ twin._image.px[<<trace[2].x - X1, trace[2].y - Y1>>] = Palette(trace[2].color)


\* The i-th whole record of the diff as the tuple unpack returns.
WireTuple(i) == << WireField(i, 0), WireField(i, 1), WireField(i, 2), WireField(i, 3) >>

\* C18: every run ends (returns or raises); the records decoded so far are
\* the first records of the stream, in stream order, each once; the file
\* position only moves forward, by at most one record per read, and never
\* beyond the end of the stream; and there is at most one reported boundary
\* per decoded record.
C18_SinglePassTerminates ==
    /\ <>(pc \in {"done", "raised"})
    /\ [](/\ Len(decoded) <= WholeRecords
          /\ \A i \in 1..Len(decoded) : decoded[i] = WireTuple(i)
          /\ f.pos <= Len(data)
          /\ f.pos >= RecordSize * Len(decoded)
          /\ Len(yields) <= Len(decoded)
          /\ yields = Boundaries(Len(decoded)) \/ pc = "raised")
    /\ [][/\ f'.pos >= f.pos
          /\ f'.pos <= f.pos + RecordSize
          /\ Len(decoded') \in {Len(decoded), Len(decoded) + 1}
          /\ Len(decoded') = Len(decoded) + 1 => f'.pos = f.pos + RecordSize
          /\ Len(yields') \in {Len(yields), Len(yields) + 1}]_vars

\* A stream of three records was scanned to its end and the run returned.
C18_Witness ==
    /\ pc = "done"
    /\ WholeRecords = 3
    /\ Len(decoded) = 3
    /\ f.pos = Len(data)
    /\ yields # <<>>


\* C13: no run ends with the file of the diff still open: when main has
\* returned or raised, the file that load_diff opened has been closed.
C13_HandleClosedAtEnd ==
    (pc \in {"done", "raised"} /\ f.opened) => f.closed


\* An --area input that is not a region: not two corners of two numbers, a
\* coordinate outside 0..999, or corners the wrong way round.
InvalidRegion(a) ==
    \/ Len(a) # 2
    \/ \E k \in 1..2 : Len(a[k]) # 2
    \/ \E k \in 1..2 : \E c \in 1..2 : a[k][c] < 0 \/ a[k][c] > BoardMax
    \/ a[1][1] > a[2][1]
    \/ a[1][2] > a[2][2]

\* C12: with an --area that is not a region the run is rejected before
\* decoding begins: the diff is never opened, no record is decoded and no
\* file is written.
C12_InvalidRegionRejected ==
    InvalidRegion(args.area)
    => /\ ~f.opened
       /\ decoded = <<>>
       /\ files = <<>>
       /\ pc \in {"parse_args", "main", "exit", "raised"}

====
